---- MODULE Spec2Model ----
(***************************************************************************)
(* aquosctl: one invocation of the Sharp Aquos RS-232 control program.     *)
(* The module models main(), openport(), sendcommand(), checkcmd() and the *)
(* SIGALRM handler leave() of aquosctl.c, together with the C library      *)
(* conversions the validators rely on (atoi, sscanf "%d.%d", sprintf).     *)
(* C strings are TLA+ strings; a byte is a string of length one.           *)
(***************************************************************************)
EXTENDS Integers, Sequences, FiniteSets, TLC

(***************************************************************************)
(* Bounds of the model.                                                    *)
(***************************************************************************)
\* largest decimal argument value drawn for the validator
MaxVal == 16390
\* the validator is given the negative decimal arguments down to -MaxNeg
MaxNeg == 3
\* a read returns up to MaxChunk bytes, or everything that is available
MaxChunk == 2
\* majors and minors of the dotted arguments: up to MaxDot, and next to 99
\* and 999
MaxDot == 12

(***************************************************************************)
(* Program constants.                                                      *)
(***************************************************************************)
CMD_NONE == 0
CMD_POENABLE == 1
CMD_POWER == 2
CMD_INPUT == 3
CMD_AVMODE == 6
CMD_VOLUME == 7
CMD_HPOS == 8
CMD_VPOS == 9
CMD_CLOCK == 10
CMD_PHASE == 11
CMD_VIEWMODE == 12
CMD_MUTE == 13
CMD_SURROUND == 14
CMD_AUDIOSEL == 15
CMD_SLEEP == 16
CMD_ACHAN == 17
CMD_DCHAN == 18
CMD_DCABL1 == 19
CMD_DCABL2 == 20
CMD_CHUP == 21
CMD_CHDN == 22
CMD_CC == 23
CMD_3D == 24
CMD_BUTTON == 25

EXIT_SUCCESS == 0
EXIT_FAILURE == 1
\* sizeof(buffer) in sendcommand
BUFSIZE == 255
\* sizeof(param) in main
PARAMSIZE == 5

CR == "\r"
LF == "\n"

(***************************************************************************)
(* C library conversions.                                                  *)
(***************************************************************************)
ch(s, i) == SubSeq(s, i, i)

isdigit(c) == c \in {"0", "1", "2", "3", "4", "5", "6", "7", "8", "9"}

isspace(c) == c \in {" ", "\t", "\n", "\f", "\r"}

digitval(c) ==
    CASE c = "0" -> 0 [] c = "1" -> 1 [] c = "2" -> 2 [] c = "3" -> 3
      [] c = "4" -> 4 [] c = "5" -> 5 [] c = "6" -> 6 [] c = "7" -> 7
      [] c = "8" -> 8 [] c = "9" -> 9

digitchar(d) == ch("0123456789", d + 1)

\* The conversions are functions, so that an argument is a value by the
\* time the body looks at it.

\* index of the first character of s at or after i that is not white space
skipspace[s \in STRING, i \in Nat] ==
    IF i <= Len(s) /\ isspace(ch(s, i)) THEN skipspace[s, i + 1] ELSE i

\* value of the run of digits of s that starts at i, continuing acc
digits[s \in STRING, i \in Nat, acc \in Nat] ==
    IF i <= Len(s) /\ isdigit(ch(s, i))
    THEN digits[s, i + 1, acc * 10 + digitval(ch(s, i))]
    ELSE acc

\* index just after the run of digits of s that starts at i
digitsend[s \in STRING, i \in Nat] ==
    IF i <= Len(s) /\ isdigit(ch(s, i)) THEN digitsend[s, i + 1] ELSE i

\* one %d conversion at position i of s: white space, optional sign, digits
scanint[s \in STRING, i \in Nat] ==
    LET j == skipspace[s, i]
        signed == j <= Len(s) /\ ch(s, j) \in {"-", "+"}
        k == IF signed THEN j + 1 ELSE j
        e == digitsend[s, k]
        v == digits[s, k, 0]
    IN  [eof |-> j > Len(s),
         ok |-> e > k,
         val |-> IF signed /\ ch(s, j) = "-" THEN 0 - v ELSE v,
         next |-> e]

\* atoi(3): the leading integer of the text, 0 when there is none
atoi[s \in STRING] == LET r == scanint[s, 1] IN IF r.ok THEN r.val ELSE 0

\* sscanf(arg, "%d.%d", &chan, &subchan) with chan = subchan = 0 before
sscanf_d_d[s \in STRING] ==
    LET a == scanint[s, 1]
    IN  IF a.eof THEN [n |-> 0 - 1, chan |-> 0, subchan |-> 0]
        ELSE IF ~a.ok THEN [n |-> 0, chan |-> 0, subchan |-> 0]
        ELSE IF ~(a.next <= Len(s) /\ ch(s, a.next) = ".")
             THEN [n |-> 1, chan |-> a.val, subchan |-> 0]
        ELSE LET b == scanint[s, a.next + 1]
             IN  IF b.ok THEN [n |-> 2, chan |-> a.val, subchan |-> b.val]
                 ELSE [n |-> 1, chan |-> a.val, subchan |-> 0]

\* decimal digits of a natural number
udec[v \in Nat] ==
    IF v < 10 THEN digitchar(v) ELSE udec[v \div 10] \o digitchar(v % 10)

\* n copies of the character c, none for n <= 0
fill[c \in STRING, n \in Int] ==
    IF n <= 0 THEN ""
    ELSE IF n = 1 THEN c
    ELSE LET half == fill[c, n \div 2]
         IN  half \o half \o (IF n % 2 = 1 THEN c ELSE "")

\* printf "%d"
fmt_d[v \in Int] == IF v < 0 THEN "-" \o udec[0 - v] ELSE udec[v]

\* printf "%0<w>d": zero padding goes between the sign and the digits
fmt_0d[w \in Nat, v \in Int] ==
    IF v < 0 THEN "-" \o fill["0", w - 1 - Len(udec[0 - v])] \o udec[0 - v]
    ELSE fill["0", w - Len(udec[v])] \o udec[v]

\* printf "%-4s": left-justified, space-padded to at least 4, never truncated
fmt_s4[s \in STRING] == s \o fill[" ", 4 - Len(s)]

(***************************************************************************)
(* Command table and lookup.                                               *)
(***************************************************************************)
cmdtab(newer) ==
    << [cmd |-> "poenable", opcode |-> CMD_POENABLE,
        args |-> IF newer THEN "{ on | on-ip | off }" ELSE "{ on | off }"],
       [cmd |-> "power", opcode |-> CMD_POWER, args |-> "{ on | off }"],
       [cmd |-> "input", opcode |-> CMD_INPUT,
        args |-> IF newer THEN "[ tv | 1 - 8 ]" ELSE "[ tv | 1 - 7 ]"],
       [cmd |-> "avmode", opcode |-> CMD_AVMODE,
        args |-> IF newer
                 THEN "[standard|movie|game|user|dyn-fixed|dyn|pc|xvycc|standard-3d|movie-3d|game-3d|auto]"
                 ELSE "[standard|movie|game|user|dyn-fixed|dyn|pc|xvycc]"],
       [cmd |-> "vol", opcode |-> CMD_VOLUME, args |-> "{ 0 - 60 }"],
       [cmd |-> "hpos", opcode |-> CMD_HPOS,
        args |-> "<varies depending on View Mode or signal type>"],
       [cmd |-> "vpos", opcode |-> CMD_VPOS,
        args |-> "<varies depending on View Mode or signal type>"],
       [cmd |-> "clock", opcode |-> CMD_CLOCK, args |-> "{ 0 - 180 }"],
       [cmd |-> "phase", opcode |-> CMD_PHASE, args |-> "{ 1 - 40 }"],
       [cmd |-> "viewmode", opcode |-> CMD_VIEWMODE,
        args |-> IF newer
                 THEN "{sidebar|sstretch|zoom|stretch|normal|zoom-pc|stretch-pc|dotbydot|full}"
                 ELSE "{sidebar|sstretch|zoom|stretch|normal|zoom-pc|stretch-pc|dotbydot|full|auto|original}"],
       [cmd |-> "mute", opcode |-> CMD_MUTE, args |-> "[ on | off ]"],
       [cmd |-> "surround", opcode |-> CMD_SURROUND,
        args |-> IF newer THEN "[ on | off ]"
                 ELSE "[ normal | off | 3d-hall | 3d-movie | 3d-standard | 3d-stadium ]"],
       [cmd |-> "audiosel", opcode |-> CMD_AUDIOSEL, args |-> "<none>"],
       [cmd |-> "sleep", opcode |-> CMD_SLEEP,
        args |-> "{ off or 0 | 30 | 60 | 90 | 120 }"],
       [cmd |-> "achan", opcode |-> CMD_ACHAN, args |-> "{ 1 - 135 }"],
       [cmd |-> "dchan", opcode |-> CMD_DCHAN,
        args |-> "{ xx.yy } or { xx } (xx=channel 1-99, yy=subchannel 1-99)"],
       [cmd |-> "dcabl1", opcode |-> CMD_DCABL1,
        args |-> "{ xxx.yyy } or { xxx } (xxx=major ch. 1-999, yyy=minor ch. 0-999)"],
       [cmd |-> "dcabl2", opcode |-> CMD_DCABL2, args |-> "{ 0 - 16383 }"],
       [cmd |-> "chup", opcode |-> CMD_CHUP, args |-> "<none>"],
       [cmd |-> "chdn", opcode |-> CMD_CHDN, args |-> "<none>"],
       [cmd |-> "cc", opcode |-> CMD_CC, args |-> "<none>"] >> \o
    (IF newer
     THEN << [cmd |-> "3d", opcode |-> CMD_3D,
              args |-> "{ off | 2d3d | sbs | tab | 3d2d-sbs | 3d2d-tab | 3d-auto | 2d-auto }"],
             [cmd |-> "button", opcode |-> CMD_BUTTON,
              args |-> "{ button on remote }"] >>
     ELSE << >>)

\* checkcmd(): opcode of the first table entry whose name equals the string
checkcmd(newer, string) ==
    LET tab == cmdtab(newer)
        hits == {i \in 1..Len(tab) : tab[i].cmd = string}
    IN  IF hits = {} THEN CMD_NONE
        ELSE tab[CHOOSE i \in hits : \A j \in hits : i <= j].opcode

(***************************************************************************)
(* The validators of main()'s switch.  A validator yields the frames       *)
(* (command, parameter) handed to sendcommand, in order, or valid = FALSE  *)
(* for the "Invalid parameter" exit.                                       *)
(***************************************************************************)
Invalid == [valid |-> FALSE, frames |-> << >>]

Frame(command, parameter) == [command |-> command, parameter |-> parameter]

One(command, parameter) ==
    [valid |-> TRUE, frames |-> << Frame(command, parameter) >>]

\* an if / else-if chain of strcmp(arg, token) == 0 tests: the first branch
\* whose token equals arg selects the text given to sprintf "%-4s"
chain(command, tab, arg) ==
    LET hits == {i \in 1..Len(tab) : tab[i][1] = arg}
    IN  IF hits = {} THEN Invalid
        ELSE One(command,
                 fmt_s4[tab[CHOOSE i \in hits : \A j \in hits : i <= j][2]])

poenable_tab(newer) ==
    << <<"off", "0">>, <<"on", "1">> >> \o
    (IF newer THEN << <<"on-ip", "2">> >> ELSE << >>)

power_tab == << <<"off", "0">>, <<"on", "1">> >>

avmode_tab(newer) ==
    << <<"", "0">>, <<"standard", "1">>, <<"movie", "2">>, <<"game", "3">>,
       <<"user", "4">>, <<"dyn-fixed", "5">>, <<"dyn", "6">>, <<"pc", "7">>,
       <<"xvycc", "8">> >> \o
    (IF newer
     THEN << <<"standard-3d", "14">>, <<"movie-3d", "15">>,
             <<"game-3d", "16">>, <<"auto", "100">> >>
     ELSE << >>)

viewmode_tab(newer) ==
    << <<"", "0">>, <<"sidebar", "1">>, <<"sstretch", "2">>, <<"zoom", "3">>,
       <<"stretch", "4">>, <<"normal", "5">>, <<"zoom-pc", "6">>,
       <<"stretch-pc", "7">>, <<"dotbydot", "8">>, <<"full", "9">> >> \o
    (IF newer THEN << <<"auto", "10">>, <<"original", "11">> >> ELSE << >>)

\* mute_tab without the branch of the empty argument
mute_tab_no_toggle == << <<"on", "1">>, <<"off", "2">> >>

mute_tab == << <<"", "0">>, <<"on", "1">>, <<"off", "2">> >>

surround_tab(newer) ==
    << <<"", "0">> >> \o
    (IF newer THEN << <<"normal", "1">> >> ELSE << <<"on", "1">> >>) \o
    << <<"off", "2">> >> \o
    (IF newer
     THEN << <<"3d-hall", "4">>, <<"3d-movie", "5">>, <<"3d-standard", "6">>,
             <<"3d-stadium", "7">> >>
     ELSE << >>)

sleep_tab ==
    << <<"off", "0">>, <<"0", "0">>, <<"30", "1">>, <<"60", "2">>,
       <<"90", "3">>, <<"120", "4">> >>

threed_tab ==
    << <<"off", "0">>, <<"2d3d", "1">>, <<"sbs", "2">>, <<"tab", "3">>,
       <<"3d2d-sbs", "4">>, <<"3d2d-tab", "5">>, <<"3d-auto", "6">>,
       <<"2d-auto", "7">> >>

button_tab ==
 <<
    <<"0", "0">>, <<"1", "1">>, <<"2", "2">>, <<"3", "3">>, <<"4", "4">>,
    <<"5", "5">>, <<"6", "6">>, <<"7", "7">>, <<"8", "8">>, <<"9", "9">>,
    <<".", "10">>, <<"ent", "11">>, <<"enter", "11">>, <<"power", "12">>,
    <<"display", "13">>, <<"power-source", "14">>, <<"rew", "15">>,
    <<"play", "16">>, <<"ff", "17">>, <<"pause", "18">>, <<"prev", "19">>,
    <<"stop", "20">>, <<"next", "21">>, <<"rec", "22">>,
    <<"option", "23">>, <<"sleep", "24">>, <<"cc", "27">>,
    <<"avmode", "28">>, <<"viewmode", "29">>, <<"flashback", "30">>,
    <<"mute", "31">>, <<"vol-", "32">>, <<"voldn", "32">>,
    <<"vol+", "33">>, <<"volup", "33">>, <<"chup", "34">>,
    <<"chdn", "35">>, <<"input", "36">>, <<"menu", "38">>,
    <<"startcenter", "39">>, <<"enter", "40">>, <<"up", "41">>,
    <<"down", "42">>, <<"left", "43">>, <<"right", "44">>,
    <<"return", "45">>, <<"exit", "46">>, <<"fav", "47">>,
    <<"favorite", "47">>, <<"favoritech", "47">>, <<"3d-surround", "48">>,
    <<"audio", "49">>, <<"a", "50">>, <<"red", "50">>, <<"b", "51">>,
    <<"green", "51">>, <<"c", "52">>, <<"blue", "52">>, <<"d", "53">>,
    <<"yellow", "53">>, <<"freeze", "54">>, <<"favapp1", "55">>,
    <<"favapp2", "56">>, <<"favapp3", "57">>, <<"3d", "58">>,
    <<"netflix", "59">>
 >>

case_input(newer, arg, arg2) ==
    IF arg = "" THEN One("ITGD", fmt_s4["0"])
    ELSE IF arg = "tv" THEN One("ITVD", fmt_s4["0"])
    ELSE IF (atoi[arg] >= 1 /\ atoi[arg] <= (IF newer THEN 8 ELSE 7))
            /\ arg2 = ""
         THEN One("IAVD", fmt_s4[arg])
    ELSE Invalid

\* the five commands that test (arg != "") && atoi(arg) in [lo, hi]
case_range(command, lo, hi, arg) ==
    IF arg # "" /\ (atoi[arg] >= lo /\ atoi[arg] <= hi)
    THEN One(command, fmt_s4[arg])
    ELSE Invalid

case_volume(arg) == case_range("VOLM", 0, 60, arg)

case_hpos(arg) == case_range("HPOS", 0, 999, arg)

case_vpos(arg) == case_range("VPOS", 0, 999, arg)

case_clock(arg) == case_range("CLCK", 0, 180, arg)

case_phase(arg) == case_range("PHSE", 0, 40, arg)

case_achan(arg) ==
    IF atoi[arg] >= 1 /\ atoi[arg] <= 135
    THEN One("DCCH", fmt_s4[arg])
    ELSE Invalid

\* case_dchan that demands both numbers of the pair
case_dchan_needs_minor(arg) ==
    LET r == sscanf_d_d[arg]
    IN  IF r.n > 1
        THEN One("DA2P", fmt_0d[2, r.chan] \o fmt_0d[2, r.subchan])
        ELSE Invalid

case_dchan(arg) ==
    LET r == sscanf_d_d[arg]
    IN  IF r.n > 0
        THEN One("DA2P", fmt_0d[2, r.chan] \o fmt_0d[2, r.subchan])
        ELSE Invalid

case_dcabl1(arg) ==
    LET r == sscanf_d_d[arg]
    IN  IF r.n > 0 /\ (r.chan <= 999 /\ r.subchan <= 999)
        THEN [valid |-> TRUE,
              frames |-> << Frame("DC2U", fmt_0d[3, r.chan] \o " "),
                            Frame("DC2L", fmt_0d[3, r.subchan] \o " ") >>]
        ELSE Invalid

\* case_dcabl2 with the high range sent unshifted
case_dcabl2_unshifted(arg) ==
    IF atoi[arg] >= 0 /\ atoi[arg] <= 9999
    THEN One("DC10", fmt_0d[4, atoi[arg]])
    ELSE IF atoi[arg] > 9999 /\ atoi[arg] <= 16383
    THEN One("DC11", fmt_0d[4, atoi[arg]])
    ELSE Invalid

case_dcabl2(arg) ==
    IF atoi[arg] >= 0 /\ atoi[arg] <= 9999
    THEN One("DC10", fmt_0d[4, atoi[arg]])
    ELSE IF atoi[arg] > 9999 /\ atoi[arg] <= 16383
    THEN One("DC11", fmt_0d[4, atoi[arg] - 10000])
    ELSE Invalid

\* the body of switch(checkcmd(oparg)) for a known command
validate(newer, op, arg, arg2) ==
    CASE op = CMD_POENABLE -> chain("RSPW", poenable_tab(newer), arg)
      [] op = CMD_POWER -> chain("POWR", power_tab, arg)
      [] op = CMD_INPUT -> case_input(newer, arg, arg2)
      [] op = CMD_AVMODE -> chain("AVMD", avmode_tab(newer), arg)
      [] op = CMD_VOLUME -> case_volume(arg)
      [] op = CMD_HPOS -> case_hpos(arg)
      [] op = CMD_VPOS -> case_vpos(arg)
      [] op = CMD_CLOCK -> case_clock(arg)
      [] op = CMD_PHASE -> case_phase(arg)
      [] op = CMD_VIEWMODE -> chain("WIDE", viewmode_tab(newer), arg)
      [] op = CMD_MUTE -> chain("MUTE", mute_tab, arg)
      [] op = CMD_SURROUND -> chain("ACSU", surround_tab(newer), arg)
      [] op = CMD_AUDIOSEL -> One("ACHA", fmt_s4["0"])
      [] op = CMD_SLEEP -> chain("OFTM", sleep_tab, arg)
      [] op = CMD_ACHAN -> case_achan(arg)
      [] op = CMD_DCHAN -> case_dchan(arg)
      [] op = CMD_DCABL1 -> case_dcabl1(arg)
      [] op = CMD_DCABL2 -> case_dcabl2(arg)
      [] op = CMD_CHUP -> One("CHUP", fmt_s4["0"])
      [] op = CMD_CHDN -> One("CHDW", fmt_s4["0"])
      [] op = CMD_CC -> One("CLCP", fmt_s4["0"])
      [] op = CMD_3D -> chain("TDCH", threed_tab, arg)
      [] op = CMD_BUTTON -> chain("RCKY", button_tab, arg)

\* sprintf wrote more than sizeof(param) bytes (text plus NUL) into param
overflows(r) ==
    \E i \in 1..Len(r.frames) : Len(r.frames[i].parameter) + 1 > PARAMSIZE

(***************************************************************************)
(* Response classification of sendcommand().                               *)
(***************************************************************************)
Min(a, b) == IF a <= b THEN a ELSE b

\* strncmp(s, t, n) == 0 for NUL-free texts s and t
strncmp_eq(s, t, n) ==
    SubSeq(s, 1, Min(n, Len(s))) = SubSeq(t, 1, Min(n, Len(t)))

\* buffptr[-1] = '\0' for buffptr > buffer: the text left in the buffer
chop(buf) == SubSeq(buf, 1, Len(buf) - 1)

\* classify without the test for the error marker
classify_no_err(text) ==
    IF strncmp_eq(text, "OK", 2) THEN "Success" ELSE "UnexpectedPayload"

\* the strncmp chain at the end of sendcommand()
classify(text) ==
    IF strncmp_eq(text, "OK", 2) THEN "Success"
    ELSE IF strncmp_eq(text, "ERR", 3) THEN "ProtocolError"
    ELSE "UnexpectedPayload"

\* the value sendcommand() returns for a classification
retcode(result) == IF result = "Success" THEN EXIT_SUCCESS ELSE EXIT_FAILURE

isterm(c) == c = LF \/ c = CR

(***************************************************************************)
(* Inputs of the model: invocations and device replies.                    *)
(***************************************************************************)
\* command names of both builds, an unknown name and a missing name
OpArgs ==
    {"poenable", "power", "input", "avmode", "vol", "hpos", "vpos", "clock",
     "phase", "viewmode", "mute", "surround", "audiosel", "sleep", "achan",
     "dchan", "dcabl1", "dcabl2", "chup", "chdn", "cc", "3d", "button",
     "volume", ""}

\* argument texts of the process runs
RunArgs ==
    {"", "on", "off", "tv", "0", "5", "40", "abc", "12ab", "5.12", "-1",
     "10000", "00005"}

\* argument texts of the validator runs
TextArgs ==
    RunArgs \cup
    {"12abc", "1a", " 7", "+5", "5.", ".5", "5.12.3", "x.1", "999.999",
     "999.1000", "1000.0", "100.1", "-5.3", "00005", "05", "normal", "auto",
     "original", "standard", "sidebar", "3d-hall", "on-ip", "enter", "ent",
     "30", "120", "sbs", "8", "7", "1"}

DecArgs == {fmt_d[v] : v \in (0 - MaxNeg)..MaxVal}

DotVals ==
    {v \in (0 - MaxNeg)..1001 :
        v <= MaxDot \/ (v >= 98 /\ v <= 101) \/ (v >= 998 /\ v <= 1001)}

\* argument texts of the form major.minor
DotArgs == {fmt_d[M] \o "." \o fmt_d[m] : M \in DotVals, m \in DotVals}

\* every token that case CMD_BUTTON compares the argument with
ButtonArgs == {button_tab[i][1] : i \in 1..Len(button_tab)}

\* the commands whose case converts the argument to an integer
IntCmds ==
    {"input", "vol", "hpos", "vpos", "clock", "phase", "achan", "dchan",
     "dcabl1", "dcabl2"}

\* what the television may answer to one frame
Replies ==
    {"", "OK" \o CR, "ERR" \o CR, "GARBLED" \o CR, "OK" \o LF, "OK",
     "OK" \o CR \o "X", fill["X", BUFSIZE - 1]}

(***************************************************************************)
(* State.                                                                  *)
(***************************************************************************)
VARIABLES
    newer,      \* built with NEWER_PROTOCOL
    nosend,     \* option -n
    verbose,    \* option -v
    oparg,      \* argv[0] after the options: the command name
    arg,        \* argv[1]
    arg2,       \* argv[2]
    pc,         \* position of the process
    fd,         \* the global descriptor
    isopen,     \* the serial port is open on fd
    frames,     \* the (command, parameter) pairs main passes to sendcommand
    idx,        \* index in frames of the sendcommand call in progress
    alarm,      \* a SIGALRM is scheduled
    pending,    \* bytes in the port's input queue
    buffer,     \* buffer[0 .. buffptr-1] of sendcommand
    outcomes,   \* one record per sendcommand call that returned
    out,        \* what was reported on stdout and stderr, in order
    log,        \* system calls on fd in order; a read is logged when it
                \* returns, a run of consecutive reads once
    status      \* exit status, meaningful once pc = "exit"

vars ==
    <<newer, nosend, verbose, oparg, arg, arg2, pc, fd, isopen, frames, idx,
      alarm, pending, buffer, outcomes, out, log, status>>

inputs == <<newer, nosend, verbose, oparg, arg, arg2>>

Ev(op, data) == [op |-> op, data |-> data]

\* the lines the program prints (progname is "aquosctl")
msg_frame(f) ==
    "command='" \o f.command \o "', parameter='" \o f.parameter \o "'"

msg_success == "Success."

msg_error(f) ==
    "Error: command/param '" \o f.command \o f.parameter \o "'"

msg_unexpected(text, f) ==
    "Error: unexpected response '" \o text \o "' to command/param '" \o
    f.command \o f.parameter \o "'"

msg_badcmd(name) == "aquosctl: bad command '" \o name \o "'"

msg_invalid(a, name) ==
    IF name = "input"
    THEN "aquosctl: Invalid parameter(s) for command " \o name \o "."
    ELSE "aquosctl: Invalid parameter \"" \o a \o "\" for command " \o
         name \o "."

msg_openport == "openport(/dev/ttyS0): error"

msg_noresponse == "No response."

\* the state main() is in when it reaches "if (nosend == 0) openport(port)"
AtMain ==
    /\ pc = "main"
    /\ fd = 0
    /\ isopen = FALSE
    /\ frames = << >>
    /\ idx = 0
    /\ alarm = FALSE
    /\ pending = ""
    /\ buffer = ""
    /\ outcomes = << >>
    /\ out = << >>
    /\ log = << >>
    /\ status = EXIT_SUCCESS

Init ==
    /\ newer \in BOOLEAN
    /\ nosend \in BOOLEAN
    /\ verbose \in BOOLEAN
    /\ \/ oparg \in OpArgs /\ arg \in RunArgs /\ arg2 = ""
       \/ oparg = "input" /\ arg \in {"1", "8"} /\ arg2 \in {"", "auto"}
    /\ AtMain

(***************************************************************************)
(* main(): open the port, look the command up, validate.                   *)
(***************************************************************************)
\* openport(): open(2) succeeds and the line is configured, or it fails
\* and the process exits
openport ==
    \/ /\ fd' = 3
       /\ isopen' = TRUE
       /\ log' = Append(log, Ev("open", ""))
       /\ pc' = "switch"
       /\ UNCHANGED <<out, status>>
    \/ /\ out' = Append(out, msg_openport)
       /\ status' = EXIT_FAILURE
       /\ pc' = "exit"
       /\ UNCHANGED <<fd, isopen, log>>

\* if (nosend == 0) openport(port);
MainOpen ==
    /\ pc = "main"
    /\ IF nosend THEN pc' = "switch" /\ UNCHANGED <<fd, isopen, log, out, status>>
       ELSE openport
    /\ UNCHANGED <<inputs, frames, idx, alarm, pending, buffer, outcomes>>

\* the value the switch of main() branches on, and what the case of a
\* known command makes of the arguments
switchval == checkcmd(newer, oparg)

casevalue(op) == validate(newer, op, arg, arg2)

\* case CMD_NONE: "bad command", return(EXIT_FAILURE)
SwitchNone ==
    /\ pc = "switch"
    /\ switchval = CMD_NONE
    /\ out' = Append(out, msg_badcmd(oparg))
    /\ status' = EXIT_FAILURE
    /\ pc' = "exit"
    /\ UNCHANGED <<inputs, fd, isopen, frames, idx, alarm, pending, buffer,
                   outcomes, log>>

\* SwitchInvalid without the return: the error is reported and control
\* falls through to the sendcommand call with param still empty
SwitchInvalid_falls_through ==
    /\ pc = "switch"
    /\ \E op \in {switchval} :
          /\ op # CMD_NONE
          /\ \E r \in {casevalue(op)} : ~r.valid
    /\ out' = Append(out, msg_invalid(arg, oparg))
    /\ frames' = << Frame("VOLM", "") >>
    /\ idx' = 1
    /\ pc' = "sc_entry"
    /\ UNCHANGED <<inputs, fd, isopen, alarm, pending, buffer, outcomes, log,
                   status>>

\* the else branch of a case: "Invalid parameter", return(EXIT_FAILURE)
SwitchInvalid ==
    /\ pc = "switch"
    /\ \E op \in {switchval} :
          /\ op # CMD_NONE
          /\ \E r \in {casevalue(op)} : ~r.valid
    /\ out' = Append(out, msg_invalid(arg, oparg))
    /\ status' = EXIT_FAILURE
    /\ pc' = "exit"
    /\ UNCHANGED <<inputs, fd, isopen, frames, idx, alarm, pending, buffer,
                   outcomes, log>>

\* the argument passed the test of its case: param is formatted and the
\* first sendcommand call is entered
SwitchValid ==
    /\ pc = "switch"
    /\ \E op \in {switchval} :
          /\ op # CMD_NONE
          /\ \E r \in {casevalue(op)} :
                /\ r.valid
                /\ frames' = r.frames
    /\ idx' = 1
    /\ pc' = "sc_entry"
    /\ UNCHANGED <<inputs, fd, isopen, alarm, pending, buffer, outcomes, out,
                   log, status>>

\* sprintf stored more than sizeof(param) bytes: undefined behaviour.  The
\* build either carries on with the text as formatted (SwitchValid) or the
\* hardened library call ends the process here
SwitchSmash ==
    /\ pc = "switch"
    /\ \E op \in {switchval} :
          /\ op # CMD_NONE
          /\ \E r \in {casevalue(op)} : r.valid /\ overflows(r)
    /\ pc' = "abort"
    /\ UNCHANGED <<inputs, fd, isopen, frames, idx, alarm, pending, buffer,
                   outcomes, out, log, status>>

(***************************************************************************)
(* sendcommand().                                                          *)
(***************************************************************************)
cur == frames[idx]

\* control returns from sendcommand to main: the result is discarded and
\* main goes on to the next sendcommand call of the case, or to close(fd)
AfterReturn ==
    IF idx < Len(frames)
    THEN idx' = idx + 1 /\ pc' = "sc_entry"
    ELSE idx' = idx /\ pc' = "close"

\* SendEntry without the early return of the no-send mode
SendEntry_always_sends ==
    /\ pc = "sc_entry"
    /\ out' = IF verbose \/ nosend THEN Append(out, msg_frame(cur)) ELSE out
    /\ pc' = "sc_wcmd"
    /\ UNCHANGED <<inputs, fd, isopen, frames, idx, alarm, pending, buffer,
                   outcomes, log, status>>

\* the printf of the frame, and the early return of the no-send mode
SendEntry ==
    /\ pc = "sc_entry"
    /\ LET shown == IF verbose \/ nosend
                    THEN Append(out, msg_frame(cur))
                    ELSE out
       IN  IF nosend
           THEN /\ out' = shown
                /\ outcomes' = Append(outcomes,
                       [frame |-> cur, received |-> "", terminated |-> FALSE,
                        result |-> "NotSent", payload |-> "",
                        ret |-> EXIT_SUCCESS])
                /\ AfterReturn
           ELSE /\ out' = shown
                /\ pc' = "sc_wcmd"
                /\ UNCHANGED <<idx, outcomes>>
    /\ UNCHANGED <<inputs, fd, isopen, frames, alarm, pending, buffer, log,
                   status>>

\* write(fd, command, strlen(command))
SendWriteCommand ==
    /\ pc = "sc_wcmd"
    /\ log' = Append(log, Ev("write", cur.command))
    /\ pc' = "sc_wparam"
    /\ UNCHANGED <<inputs, fd, isopen, frames, idx, alarm, pending, buffer,
                   outcomes, out, status>>

\* write(fd, parameter, strlen(parameter))
SendWriteParameter ==
    /\ pc = "sc_wparam"
    /\ log' = Append(log, Ev("write", cur.parameter))
    /\ pc' = "sc_wcr"
    /\ UNCHANGED <<inputs, fd, isopen, frames, idx, alarm, pending, buffer,
                   outcomes, out, status>>

\* write(fd, "\r", 1); the television answers the completed frame
\* SendWriteCR that goes on to the next frame without waiting for the reply
SendWriteCR_pipelined ==
    /\ pc = "sc_wcr"
    /\ log' = Append(log, Ev("write", CR))
    /\ \E r \in Replies : pending' = pending \o r
    /\ IF idx < Len(frames)
       THEN idx' = idx + 1 /\ pc' = "sc_entry"
       ELSE idx' = idx /\ pc' = "sc_alarm"
    /\ UNCHANGED <<inputs, fd, isopen, frames, alarm, buffer, outcomes, out,
                   status>>

SendWriteCR ==
    /\ pc = "sc_wcr"
    /\ log' = Append(log, Ev("write", CR))
    /\ \E r \in Replies : pending' = pending \o r
    /\ pc' = "sc_alarm"
    /\ UNCHANGED <<inputs, fd, isopen, frames, idx, alarm, buffer, outcomes,
                   out, status>>

\* SendAlarm without the alarm(1) call
SendAlarm_unarmed ==
    /\ pc = "sc_alarm"
    /\ buffer' = ""
    /\ pc' = "sc_read"
    /\ UNCHANGED <<inputs, fd, isopen, frames, idx, alarm, pending, outcomes,
                   out, log, status>>

\* alarm(1); buffptr = buffer;
SendAlarm ==
    /\ pc = "sc_alarm"
    /\ alarm' = TRUE
    /\ log' = Append(log, Ev("alarm", ""))
    /\ buffer' = ""
    /\ pc' = "sc_read"
    /\ UNCHANGED <<inputs, fd, isopen, frames, idx, pending, outcomes, out,
                   status>>

\* room the read call is given: buffer + sizeof(buffer) - buffptr - 1
room == BUFSIZE - Len(buffer) - 1

LogRead == IF log # << >> /\ log[Len(log)].op = "read" THEN log
           ELSE Append(log, Ev("read", ""))

\* one iteration of the while loop in which read returns nbytes > 0
\* SendRead in which every read that returns data arms the alarm again
SendRead_rearms ==
    /\ pc = "sc_read"
    /\ pending # ""
    /\ room > 0
    /\ \E nbytes \in 1..Min(Len(pending), room) :
          /\ nbytes <= MaxChunk \/ nbytes = Min(Len(pending), room)
          /\ buffer' = buffer \o SubSeq(pending, 1, nbytes)
          /\ pending' = SubSeq(pending, nbytes + 1, Len(pending))
          /\ pc' = IF isterm(ch(pending, nbytes)) THEN "sc_chop" ELSE "sc_read"
    /\ log' = Append(LogRead, Ev("alarm", ""))
    /\ alarm' = TRUE
    /\ UNCHANGED <<inputs, fd, isopen, frames, idx, outcomes, out, status>>

SendRead ==
    /\ pc = "sc_read"
    /\ pending # ""
    /\ room > 0
    /\ \E nbytes \in 1..Min(Len(pending), room) :
          /\ nbytes <= MaxChunk \/ nbytes = Min(Len(pending), room)
          /\ buffer' = buffer \o SubSeq(pending, 1, nbytes)
          /\ pending' = SubSeq(pending, nbytes + 1, Len(pending))
          /\ pc' = IF isterm(ch(pending, nbytes)) THEN "sc_chop" ELSE "sc_read"
    /\ log' = LogRead
    /\ UNCHANGED <<inputs, fd, isopen, frames, idx, alarm, outcomes, out,
                   status>>

\* read returns 0 or -1 and the loop ends: nothing to read on a port whose
\* settings make read return at once, an I/O error, or no room left
SendReadNone ==
    /\ pc = "sc_read"
    /\ pending = "" \/ room = 0
    /\ log' = LogRead
    /\ pc' = "sc_chop"
    /\ UNCHANGED <<inputs, fd, isopen, frames, idx, alarm, pending, buffer,
                   outcomes, out, status>>

\* what sendcommand reports for a classification
report(result, text) ==
    IF result = "Success"
    THEN IF verbose THEN << msg_success >> ELSE << >>
    ELSE IF result = "ProtocolError" THEN << msg_error(cur) >>
    ELSE << msg_unexpected(text, cur) >>

\* buffptr[-1] = '\0', the strncmp chain and the return.  With nothing
\* read, buffptr[-1] lies before the buffer and the buffer was never
\* written: any classification of any text can result
SendClassify ==
    /\ pc = "sc_chop"
    /\ \E result \in {"Success", "ProtocolError", "UnexpectedPayload"} :
          /\ buffer # "" => result = classify(chop(buffer))
          /\ LET text == IF buffer # "" THEN chop(buffer) ELSE "?"
             IN  /\ out' = out \o report(result, text)
                 /\ outcomes' = Append(outcomes,
                        [frame |-> cur, received |-> buffer,
                         terminated |-> buffer # "" /\
                                        isterm(ch(buffer, Len(buffer))),
                         result |-> result,
                         payload |-> IF result = "UnexpectedPayload"
                                     THEN text ELSE "",
                         ret |-> retcode(result)])
    /\ AfterReturn
    /\ UNCHANGED <<inputs, fd, isopen, frames, alarm, pending, buffer, log,
                   status>>

\* close(fd); return(EXIT_SUCCESS);
MainClose ==
    /\ pc = "close"
    /\ log' = Append(log, Ev("close", fmt_d[fd]))
    /\ isopen' = FALSE
    /\ status' = EXIT_SUCCESS
    /\ pc' = "exit"
    /\ UNCHANGED <<inputs, fd, frames, idx, alarm, pending, buffer, outcomes,
                   out>>

\* leave without the exit: the handler reports and returns to the
\* interrupted code
leave_returns ==
    /\ alarm
    /\ pc \notin {"exit", "abort"}
    /\ alarm' = FALSE
    /\ out' = Append(out, msg_noresponse)
    /\ log' = Append(log, Ev("close", fmt_d[fd]))
    /\ isopen' = FALSE
    /\ UNCHANGED <<inputs, fd, frames, idx, pending, buffer, outcomes, pc,
                   status>>

\* the SIGALRM handler: puts("No response."); close(fd); exit(EXIT_FAILURE)
leave ==
    /\ alarm
    /\ pc \notin {"exit", "abort"}
    /\ alarm' = FALSE
    /\ out' = Append(out, msg_noresponse)
    /\ log' = Append(log, Ev("close", fmt_d[fd]))
    /\ isopen' = FALSE
    /\ status' = EXIT_FAILURE
    /\ pc' = "exit"
    /\ UNCHANGED <<inputs, fd, frames, idx, pending, buffer, outcomes>>

Next ==
    \/ MainOpen
    \/ SwitchNone
    \/ SwitchInvalid
    \/ SwitchValid
    \/ SwitchSmash
    \/ SendEntry
    \/ SendWriteCommand
    \/ SendWriteParameter
    \/ SendWriteCR
    \/ SendAlarm
    \/ SendRead
    \/ SendReadNone
    \/ SendClassify
    \/ MainClose
    \/ leave

Spec == Init /\ [][Next]_vars

(***************************************************************************)
(* The validator alone: main() from the switch to the first sendcommand    *)
(* call or the failure exit, in no-send mode, over a wide range of         *)
(* argument texts.                                                         *)
(***************************************************************************)
InitEnc ==
    /\ newer \in BOOLEAN
    /\ nosend = TRUE
    /\ verbose = FALSE
    /\ \/ oparg \in OpArgs /\ arg \in TextArgs
       \/ oparg \in IntCmds /\ arg \in DecArgs
       \/ oparg \in {"dchan", "dcabl1"} /\ arg \in DotArgs
       \/ oparg = "button" /\ arg \in ButtonArgs
    /\ arg2 = ""
    /\ pc = "switch"
    /\ fd = 0
    /\ isopen = FALSE
    /\ frames = << >>
    /\ idx = 0
    /\ alarm = FALSE
    /\ pending = ""
    /\ buffer = ""
    /\ outcomes = << >>
    /\ out = << >>
    /\ log = << >>
    /\ status = EXIT_SUCCESS

NextEnc ==
    \/ SwitchNone
    \/ SwitchInvalid
    \/ SwitchValid
    \/ SwitchSmash

SpecEnc == InitEnc /\ [][NextEnc]_vars

(***************************************************************************)
(* The process under the scheduling the system guarantees: a runnable      *)
(* process takes its next step, and a scheduled SIGALRM is delivered.      *)
(* That a read returns without data is a choice of the port, not a step    *)
(* the process can count on.                                               *)
(***************************************************************************)
Program ==
    \/ MainOpen
    \/ SwitchNone
    \/ SwitchInvalid
    \/ SwitchValid
    \/ SendEntry
    \/ SendWriteCommand
    \/ SendWriteParameter
    \/ SendWriteCR
    \/ SendAlarm
    \/ SendRead
    \/ SendClassify
    \/ MainClose

SpecLive == Init /\ [][Next]_vars /\ WF_vars(Program) /\ WF_vars(leave)

(***************************************************************************)
(* Vocabulary of the properties.                                           *)
(***************************************************************************)
\* the texts handed to write(2), in order
Written == [i \in 1..Len(SelectSeq(log, LAMBDA e : e.op = "write")) |->
               SelectSeq(log, LAMBDA e : e.op = "write")[i].data]

Wrote(text) == \E i \in 1..Len(log) : log[i] = Ev("write", text)

Did(op) == \E i \in 1..Len(log) : log[i].op = op

TimedOut == out # << >> /\ out[Len(out)] = "No response."

Known == switchval # CMD_NONE

HasPrefix(s, p) == Len(s) >= Len(p) /\ SubSeq(s, 1, Len(p)) = p

\* the text is a base-10 integer: an optional minus sign, then digits only
IsDecimalText(s) ==
    LET body == IF Len(s) > 0 /\ ch(s, 1) = "-" THEN Tail(s) ELSE s
    IN  /\ Len(body) > 0
        /\ \A i \in 1..Len(body) : isdigit(ch(body, i))

\* the integer a decimal text denotes, read from its last digit
RECURSIVE magnitude(_)
magnitude(s) ==
    IF s = "" THEN 0
    ELSE 10 * magnitude(SubSeq(s, 1, Len(s) - 1)) + digitval(ch(s, Len(s)))

DecimalValue(s) ==
    IF ch(s, 1) = "-" THEN 0 - magnitude(Tail(s)) ELSE magnitude(s)

\* v in 0..9999 as exactly four decimal digits
FourDigits(v) ==
    digitchar((v \div 1000) % 10) \o digitchar((v \div 100) % 10) \o
    digitchar((v \div 10) % 10) \o digitchar(v % 10)

\* main has left the switch with the argument accepted / rejected
Accepted == pc = "sc_entry" /\ idx = 1
Rejected ==
    /\ pc = "exit"
    /\ status = EXIT_FAILURE
    /\ frames = << >>
    /\ Len(out) = 1
    /\ HasPrefix(out[1], "aquosctl: Invalid parameter")

(***************************************************************************)
(* C1: dcabl1, not in no-send mode: when the reply to the DC2U frame is    *)
(* classified as anything but Success, the DC2L frame is never written.    *)
(* main discards the result of sendcommand("DC2U", ...), so TLC refutes it.*)
(***************************************************************************)
C1_SecondFrameWithheld ==
    (/\ ~nosend
     /\ oparg = "dcabl1"
     /\ Len(outcomes) >= 1
     /\ outcomes[1].frame.command = "DC2U"
     /\ outcomes[1].terminated
     /\ outcomes[1].result # "Success")
    => ~Wrote("DC2L")

(***************************************************************************)
(* C2: the process exits with success status only if every transmitted     *)
(* frame got a reply classified Success; a reply classified ProtocolError  *)
(* or UnexpectedPayload makes it exit with failure status.  main ignores   *)
(* what sendcommand returns and ends in return(EXIT_SUCCESS), so TLC       *)
(* refutes it.                                                             *)
(***************************************************************************)
C2_ExitStatusFollowsReplies ==
    (pc = "exit" /\ ~nosend)
    => /\ (status = EXIT_SUCCESS /\ Did("write"))
          => \A i \in 1..Len(outcomes) : outcomes[i].result = "Success"
       /\ (\E i \in 1..Len(outcomes) :
              /\ outcomes[i].terminated
              /\ outcomes[i].result \in {"ProtocolError", "UnexpectedPayload"})
          => status = EXIT_FAILURE

(***************************************************************************)
(* C3: when the read loop ended on a terminator (CR or LF), the reply is   *)
(* the received bytes without that last byte; a reply that starts with OK  *)
(* is classified Success, one that starts with ERR ProtocolError, any      *)
(* other UnexpectedPayload carrying exactly the reply text; each exchange  *)
(* yields one of the three.                                                *)
(***************************************************************************)
C3_Classification ==
    \A i \in 1..Len(outcomes) :
        LET o == outcomes[i]
            text == SubSeq(o.received, 1, Len(o.received) - 1)
        IN  o.terminated =>
              /\ o.result \in {"Success", "ProtocolError", "UnexpectedPayload"}
              /\ HasPrefix(text, "OK") => o.result = "Success"
              /\ HasPrefix(text, "ERR") => o.result = "ProtocolError"
              /\ (~HasPrefix(text, "OK") /\ ~HasPrefix(text, "ERR"))
                 => (o.result = "UnexpectedPayload" /\ o.payload = text)
              /\ o.ret = (IF HasPrefix(text, "OK") THEN EXIT_SUCCESS
                          ELSE EXIT_FAILURE)

\* ERR\r was classified ProtocolError, then GARBLED\r UnexpectedPayload
C3_Witness ==
    /\ Len(outcomes) = 2
    /\ outcomes[1].received = "ERR" \o CR
    /\ outcomes[1].result = "ProtocolError"
    /\ outcomes[2].received = "GARBLED" \o CR
    /\ outcomes[2].result = "UnexpectedPayload"
    /\ outcomes[2].payload = "GARBLED"

(***************************************************************************)
(* C4: when the scheduled alarm goes off, the process reports              *)
(* "No response." and exits with failure status in that very step, and     *)
(* nothing is written to the port afterwards.                              *)
(***************************************************************************)
C4_TimeoutFatal ==
    [][/\ (alarm /\ ~alarm')
          => /\ out' = Append(out, "No response.")
             /\ pc' = "exit"
             /\ status' = EXIT_FAILURE
             /\ Written' = Written
       /\ TimedOut => (Written' = Written /\ pc' = pc)]_vars

\* dcabl1: the alarm went off with an unterminated DC2U reply; no DC2L
C4_Witness ==
    /\ TimedOut
    /\ oparg = "dcabl1"
    /\ pc = "exit"
    /\ status = EXIT_FAILURE
    /\ buffer = "OK"
    /\ outcomes = << >>
    /\ Wrote("DC2U")
    /\ ~Wrote("DC2L")

(***************************************************************************)
(* C5: every invocation terminates; in particular no run stays in the      *)
(* read loop forever once the alarm is scheduled.                          *)
(***************************************************************************)
C5_Terminates == <>(pc \in {"exit", "abort"})

\* a run that was waiting for a reply that never came, ended by the alarm
C5_Witness ==
    /\ pc = "exit"
    /\ TimedOut
    /\ Did("read") = FALSE
    /\ Wrote(CR)
    /\ buffer = ""
    /\ pending = ""

(***************************************************************************)
(* C6: an unknown command name or an argument that fails the test of its   *)
(* command makes the process report the error and exit with failure        *)
(* status; nothing was written to the port and no read was issued.  (The   *)
(* port itself is opened before the lookup, so a failed open is the error  *)
(* reported when it happens.)                                              *)
(***************************************************************************)
C6_FailsBeforeTransmission ==
    (~Known \/ ~casevalue(switchval).valid)
    => /\ ~Did("write") /\ ~Did("read") /\ ~Did("alarm")
       /\ pc \in {"main", "switch", "exit"}
       /\ pc = "exit"
          => /\ status = EXIT_FAILURE
             /\ Len(out) = 1
             /\ HasPrefix(out[1], IF ~nosend /\ ~isopen THEN "openport("
                                   ELSE IF ~Known THEN "aquosctl: bad command"
                                   ELSE "aquosctl: Invalid parameter")

\* vol -1 with the port open: rejected, nothing but the open in the log
C6_Witness ==
    /\ oparg = "vol"
    /\ arg = "-1"
    /\ ~nosend
    /\ pc = "exit"
    /\ status = EXIT_FAILURE
    /\ out = << "aquosctl: Invalid parameter \"-1\" for command vol." >>
    /\ log = << Ev("open", "") >>

(***************************************************************************)
(* C7: with -n no open, write or read is performed on the port; every      *)
(* frame of the command is reported, in order, and every sendcommand call  *)
(* returns success.                                                        *)
(***************************************************************************)
C7_DryRun ==
    nosend
    => /\ ~Did("open") /\ ~Did("write") /\ ~Did("read") /\ ~isopen
       /\ \A i \in 1..Len(outcomes) :
             /\ outcomes[i].ret = EXIT_SUCCESS
             /\ outcomes[i].frame = frames[i]
             /\ out[i] = "command='" \o frames[i].command \o
                         "', parameter='" \o frames[i].parameter \o "'"
       /\ Len(out) = Len(outcomes) \/ pc = "exit"
       /\ (pc \in {"close", "exit"} /\ Known
           /\ casevalue(switchval).valid
           /\ status = EXIT_SUCCESS)
          => /\ frames = casevalue(switchval).frames
             /\ Len(outcomes) = Len(frames)
             /\ Len(out) = Len(frames)

\* dcabl1 5.12 -n: both frames reported, run over
C7_Witness ==
    /\ nosend
    /\ oparg = "dcabl1"
    /\ arg = "5.12"
    /\ pc = "exit"
    /\ status = EXIT_SUCCESS
    /\ out = << "command='DC2U', parameter='005 '",
                "command='DC2L', parameter='012 '" >>

(***************************************************************************)
(* C8: for vol [0,60], clock [0,180], phase [1,40], achan [1,135], hpos    *)
(* and vpos [0,999], the decimal arguments lo and hi are accepted with one *)
(* frame and lo-1 and hi+1 are rejected with none.  The phase case tests   *)
(* atoi(arg) >= 0, so phase 0 is accepted and TLC refutes it.              *)
(***************************************************************************)
Ranges ==
    [vol |-> <<0, 60>>, clock |-> <<0, 180>>, phase |-> <<1, 40>>,
     achan |-> <<1, 135>>, hpos |-> <<0, 999>>, vpos |-> <<0, 999>>]

C8_RangeEnds ==
    (oparg \in DOMAIN Ranges /\ pc # "switch")
    => LET lo == Ranges[oparg][1]
           hi == Ranges[oparg][2]
       IN  /\ arg \in {fmt_d[lo], fmt_d[hi]}
              => (Accepted /\ Len(frames) = 1)
           /\ arg \in {fmt_d[lo - 1], fmt_d[hi + 1]} => Rejected

(***************************************************************************)
(* C9: for vol, hpos, vpos, clock, phase, achan and dcabl2 a non-empty     *)
(* argument that is not a base-10 integer is rejected and no frame is      *)
(* produced.  atoi yields 0 for "abc" and 12 for "12ab", so TLC refutes it.*)
(***************************************************************************)
C9_NonNumericRejected ==
    (/\ oparg \in {"vol", "hpos", "vpos", "clock", "phase", "achan", "dcabl2"}
     /\ arg # ""
     /\ ~IsDecimalText(arg)
     /\ pc # "switch")
    => Rejected

(***************************************************************************)
(* C10: dcabl2 with the decimal text of v: 0..9999 gives the one frame     *)
(* DC10 with v as four digits; 10000..16383 the one frame DC11 with        *)
(* v - 10000 as four digits; v < 0 and v >= 16384 are rejected, no frame.  *)
(***************************************************************************)
C10_SplitRange ==
    (oparg = "dcabl2" /\ IsDecimalText(arg) /\ pc # "switch")
    => LET v == DecimalValue(arg)
       IN  /\ (0 <= v /\ v <= 9999)
              => (Accepted /\ frames = << Frame("DC10", FourDigits(v)) >>)
           /\ (10000 <= v /\ v <= 16383)
              => (Accepted
                  /\ frames = << Frame("DC11", FourDigits(v - 10000)) >>)
           /\ (v < 0 \/ v >= 16384) => Rejected

\* 16383 -> DC11 6383
C10_Witness ==
    /\ oparg = "dcabl2"
    /\ arg = "16383"
    /\ Accepted
    /\ frames = << Frame("DC11", "6383") >>

(***************************************************************************)
(* C11: dchan: the argument "M.m" is parsed as major M and minor m, the    *)
(* argument "M" as major M and minor 0, and "5.12.3" as 5 and 12; an       *)
(* argument that does not start with an integer is rejected; an accepted   *)
(* pair gives the single frame DA2P whose parameter is the major           *)
(* zero-padded to two digits followed by the minor zero-padded to two      *)
(* digits, and every pair of two-digit numbers is accepted.                *)
(***************************************************************************)
\* the text starts, after white space and an optional sign, with a digit
LeadingInteger(s) ==
    \E k \in 0..Len(s) :
       /\ \A i \in 1..k : isspace(ch(s, i))
       /\ \E sign \in 0..1 :
             /\ sign = 1 => (k + 1 <= Len(s) /\ ch(s, k + 1) \in {"-", "+"})
             /\ k + sign + 1 <= Len(s)
             /\ isdigit(ch(s, k + sign + 1))

\* t is v written in base 10 and zero-padded to at least w characters
ZeroPadded(t, w, v) ==
    /\ IsDecimalText(t)
    /\ DecimalValue(t) = v
    /\ Len(t) = IF Len(fmt_d[v]) > w THEN Len(fmt_d[v]) ELSE w

\* the frame of dchan carries major and minor
SentPair(major, minor) ==
    /\ Len(frames) = 1
    /\ frames[1].command = "DA2P"
    /\ \E k \in 0..Len(frames[1].parameter) :
          /\ ZeroPadded(SubSeq(frames[1].parameter, 1, k), 2, major)
          /\ ZeroPadded(SubSeq(frames[1].parameter, k + 1,
                               Len(frames[1].parameter)), 2, minor)

ParsedAs(major, minor) ==
    /\ Accepted => SentPair(major, minor)
    /\ (major \in 0..99 /\ minor \in 0..99) => Accepted

\* the argument texts "M" and "M.m"
MajorText == [major \in DotVals |-> fmt_d[major]]
PairText ==
    [major \in DotVals, minor \in DotVals |->
        fmt_d[major] \o "." \o fmt_d[minor]]

ThreeDigits(v) ==
    digitchar((v \div 100) % 10) \o digitchar((v \div 10) % 10) \o
    digitchar(v % 10)

TwoFrames(major, minor) ==
    IF 1 <= major /\ major <= 999 /\ 0 <= minor /\ minor <= 999
    THEN /\ Accepted
         /\ frames = << Frame("DC2U", ThreeDigits(major) \o " "),
                        Frame("DC2L", ThreeDigits(minor) \o " ") >>
    ELSE Rejected

C12_Dcabl1Ranges ==
    (oparg = "dcabl1" /\ pc # "switch")
    => \A major \in DotVals, minor \in DotVals :
          /\ arg = PairText[major, minor] => TwoFrames(major, minor)
          /\ arg = MajorText[major] => TwoFrames(major, 0)

(***************************************************************************)
(* C13: every transmitted frame is exactly 9 bytes: a 4-byte opcode, a     *)
(* 4-byte parameter and one carriage return, whatever the length of the    *)
(* argument text.  sprintf("%-4s") never truncates, so TLC refutes it.     *)
(***************************************************************************)
C13_FixedFrameLength ==
    \A i \in 1..Len(Written) :
       /\ i % 3 = 1 => Len(Written[i]) = 4
       /\ i % 3 = 2 => Len(Written[i]) = 4
       /\ i % 3 = 0 => Written[i] = CR

(***************************************************************************)
(* C14: in every transmitted frame the parameter consists of decimal       *)
(* digits and space padding only; no letter, sign or other character of    *)
(* the argument text reaches the wire.  The bounded-integer cases copy the *)
(* argument text itself, so TLC refutes it.                                *)
(***************************************************************************)
C14_ParameterIsDigits ==
    \A i \in 1..Len(Written) :
       i % 3 = 2
       => \A k \in 1..Len(Written[i]) :
             isdigit(ch(Written[i], k)) \/ ch(Written[i], k) = " "

(***************************************************************************)
(* C15: for input, avmode, viewmode, mute and surround, in both protocol   *)
(* variants, the empty argument is accepted and gives exactly one frame,   *)
(* whose parameter is the toggle value "0" left-justified and padded with  *)
(* spaces to four characters.                                              *)
(***************************************************************************)
ToggleOpcode ==
    [input |-> "ITGD", avmode |-> "AVMD", viewmode |-> "WIDE",
     mute |-> "MUTE", surround |-> "ACSU"]

C15_BlankMeansToggle ==
    (oparg \in DOMAIN ToggleOpcode /\ arg = "" /\ pc # "switch")
    => /\ Accepted
       /\ frames = << Frame(ToggleOpcode[oparg], "0   ") >>

\* surround with no argument in the NEWER_PROTOCOL build
C15_Witness ==
    /\ newer
    /\ oparg = "surround"
    /\ arg = ""
    /\ Accepted
    /\ frames = << Frame("ACSU", "0   ") >>

(***************************************************************************)
(* C16: in each protocol variant, the argument tokens that the command     *)
(* table advertises for viewmode and for surround are exactly the          *)
(* non-empty arguments that the validator of the command accepts in that   *)
(* variant.  The #ifdef branches of the table are the wrong way round, so  *)
(* TLC refutes it.                                                         *)
(***************************************************************************)
IsDelimiter(c) == c \in {"{", "}", "[", "]", "|", " "}

\* the maximal runs of non-delimiter characters of a help text
HelpTokens(help) ==
    LET starts == {a \in 1..Len(help) :
                      /\ ~IsDelimiter(ch(help, a))
                      /\ a = 1 \/ IsDelimiter(ch(help, a - 1))}
        ends == {b \in 1..Len(help) :
                    /\ ~IsDelimiter(ch(help, b))
                    /\ b = Len(help) \/ IsDelimiter(ch(help, b + 1))}
        runs == {r \in starts \X ends :
                    /\ r[1] <= r[2]
                    /\ \A k \in r[1]..r[2] : ~IsDelimiter(ch(help, k))}
    IN  {SubSeq(help, r[1], r[2]) : r \in runs}

HelpOf(variant, command) ==
    LET i == CHOOSE k \in 1..Len(cmdtab(variant)) :
                 cmdtab(variant)[k].cmd = command
    IN  cmdtab(variant)[i].args

Advertised ==
    [variant \in BOOLEAN, command \in {"viewmode", "surround"} |->
        HelpTokens(HelpOf(variant, command))]

C16_HelpMatchesValidator ==
    (oparg \in {"viewmode", "surround"} /\ arg # "" /\ pc # "switch")
    => (Accepted <=> arg \in Advertised[newer, oparg])

(***************************************************************************)
(* C17: once the bytes accumulated for a reply contain a CR or LF at any   *)
(* position, no further read is issued, however the bytes were split       *)
(* across the reads.  The loop looks at the last byte of each read only,   *)
(* so TLC refutes it.                                                      *)
(***************************************************************************)
HasTerminator(s) == \E k \in 1..Len(s) : isterm(ch(s, k))

C17_StopsAtTerminator ==
    pc = "sc_read" => ~HasTerminator(buffer)

(***************************************************************************)
(* C18: a reply is classified only after a terminator byte has been        *)
(* received; when read returns 0 or an error, or 254 bytes without         *)
(* terminator fill the buffer, sendcommand produces no classification.     *)
(* The loop ends on read(...) <= 0 and the classification follows, so TLC  *)
(* refutes it.                                                             *)
(***************************************************************************)
C18_ClassifiedAfterTerminator ==
    ~nosend
    => \A i \in 1..Len(outcomes) : HasTerminator(outcomes[i].received)

(***************************************************************************)
(* C19: in every run of dcabl1 that sends, the steps happen in this order  *)
(* and no other: open, the three writes of the DC2U frame, alarm, the      *)
(* reads of the DC2U reply, the three writes of the DC2L frame, alarm, the *)
(* reads of the DC2L reply, close; the first byte of DC2L is written only  *)
(* after the DC2U reply has been classified.  A run may end early, by the  *)
(* alarm or by a failure, and then its steps are a beginning of that       *)
(* order.                                                                  *)
(***************************************************************************)
Dcabl1Order ==
    << "open", "write", "write", "write", "alarm", "read",
       "write", "write", "write", "alarm", "read", "close" >>

\* the log without the close(fd) of leave
Steps ==
    IF log # << >> /\ log[Len(log)].op = "close" /\ TimedOut
    THEN SubSeq(log, 1, Len(log) - 1)
    ELSE log

C19_StepsInOrder ==
    (oparg = "dcabl1" /\ ~nosend)
    => /\ Len(Steps) <= Len(Dcabl1Order)
       /\ \A i \in 1..Len(Steps) : Steps[i].op = Dcabl1Order[i]
       /\ Len(Written) <= 6
       /\ \A i \in 1..Len(Written) :
             /\ i = 1 => Written[i] = "DC2U"
             /\ i = 2 => Written[i] = frames[1].parameter
             /\ i = 4 => Written[i] = "DC2L"
             /\ i = 5 => Written[i] = frames[2].parameter
             /\ i \in {3, 6} => Written[i] = CR
       /\ Len(Written) > 3
          => (Len(outcomes) >= 1 /\ outcomes[1].frame = frames[1])

\* both exchanges of dcabl1 5.12 done and the port closed by main
C19_Witness ==
    /\ oparg = "dcabl1"
    /\ arg = "5.12"
    /\ ~nosend
    /\ pc = "exit"
    /\ ~TimedOut
    /\ Len(log) = Len(Dcabl1Order)
    /\ Written = << "DC2U", "005 ", CR, "DC2L", "012 ", CR >>

(***************************************************************************)
(* C20: the deadline is armed exactly once per exchange, right after the   *)
(* frame has been written and before the first read; no read re-arms it,   *)
(* and a second alarm comes only with the next frame.                      *)
(***************************************************************************)
C20_ArmedOncePerExchange ==
    \A i \in 1..Len(log) :
       /\ log[i].op = "alarm"
          => (i > 1 /\ log[i - 1] = Ev("write", CR))
       /\ (log[i] = Ev("write", CR) /\ i < Len(log))
          => log[i + 1].op \in {"alarm", "close"}
       /\ (log[i].op = "read" /\ i < Len(log))
          => log[i + 1].op \in {"write", "close"}

\* dcabl1: the reply to DC2U came in several reads, and the second alarm
\* was armed after the DC2L frame
C20_Witness ==
    /\ oparg = "dcabl1"
    /\ ~nosend
    /\ Len(outcomes) = 1
    /\ outcomes[1].received = "GARBLED" \o CR
    /\ Len(SelectSeq(log, LAMBDA e : e.op = "alarm")) = 2
    /\ pc = "sc_read"

(***************************************************************************)
(* C21: the port is opened at most once; every write, read and close is    *)
(* applied to a descriptor that was opened and is not yet closed; and a    *)
(* run that opened the port has closed it exactly once when it exits,      *)
(* whether it ends by success, validation failure or timeout.  main        *)
(* returns from a rejected argument without close(fd), and in no-send mode *)
(* it calls close(fd) on a descriptor it never opened, so TLC refutes it.  *)
(***************************************************************************)
Count(op) == Len(SelectSeq(log, LAMBDA e : e.op = op))

\* just before step i of the log the descriptor is open
OpenBefore(i) ==
    \E j \in 1..(i - 1) :
       /\ log[j].op = "open"
       /\ \A k \in (j + 1)..(i - 1) : log[k].op # "close"

C21_HandleLifecycle ==
    /\ Count("open") <= 1
    /\ \A i \in 1..Len(log) :
          log[i].op \in {"write", "read", "close"} => OpenBefore(i)
    /\ (pc = "exit" /\ Did("open")) => Count("close") = 1

(***************************************************************************)
(* C22: once the reply to the last frame of the command has been           *)
(* classified, the timer can no longer end the run with "No response.".    *)
(* alarm(1) is never cancelled, so the signal can still arrive between the *)
(* return of sendcommand and the end of main, and TLC refutes it.          *)
(***************************************************************************)
C22_NoTimeoutAfterClassification ==
    TimedOut => Len(outcomes) < Len(frames)

(***************************************************************************)
(* C23: the write position in the 255-byte response buffer stays within    *)
(* 0..254, and the index overwritten by the chop, position - 1, is always  *)
(* within 0..253, for every sequence of read results.  When the first read *)
(* returns 0 or -1 the position is 0 and the chop writes at index -1, so   *)
(* TLC refutes it.                                                         *)
(***************************************************************************)
C23_BufferSafety ==
    /\ Len(buffer) \in 0..(BUFSIZE - 1)
    /\ pc = "sc_chop" => (Len(buffer) - 1) \in 0..(BUFSIZE - 2)

(***************************************************************************)
(* C24: for each of poenable, power, vol, hpos, vpos, clock, phase, sleep, *)
(* achan, dchan, dcabl1 and dcabl2, the empty argument is rejected and no  *)
(* frame is produced.  dcabl2 tests atoi(arg) only, which is 0 for the     *)
(* empty text, so TLC refutes it.                                          *)
(***************************************************************************)
NeedsArgument ==
    {"poenable", "power", "vol", "hpos", "vpos", "clock", "phase", "sleep",
     "achan", "dchan", "dcabl1", "dcabl2"}

C24_MissingArgumentRejected ==
    (oparg \in NeedsArgument /\ arg = "" /\ pc # "switch") => Rejected

(***************************************************************************)
(* C25: in the NEWER_PROTOCOL build, button gives for each accepted token  *)
(* one RCKY frame with one code, and every code that appears in a branch   *)
(* of the case (0..24, 27..36, 38..59) is produced by at least one token;  *)
(* in particular the token "enter" produces the code 40.  "enter" is       *)
(* already taken by the earlier branch for the code 11, so TLC refutes it. *)
(***************************************************************************)
ListedCodes == (0..24) \cup (27..36) \cup (38..59)

\* the parameter field of a code: its decimal digits, padded to four
CodeField(code) ==
    IF code < 10 THEN digitchar(code) \o "   "
    ELSE digitchar(code \div 10) \o digitchar(code % 10) \o "  "

\* some token makes the validator produce the code
Produced ==
    [code \in ListedCodes |->
        \E token \in ButtonArgs :
           validate(TRUE, CMD_BUTTON, token, "") =
               One("RCKY", CodeField(code))]

C25_ButtonCodesReachable ==
    (newer /\ oparg = "button" /\ pc # "switch")
    => /\ Accepted => (Len(frames) = 1 /\ frames[1].command = "RCKY")
       /\ \A code \in ListedCodes : Produced[code]
       /\ arg = "enter"
          => (Accepted /\ frames = << Frame("RCKY", CodeField(40)) >>)

====
